---------------------------- MODULE Spec2Model ----------------------------
(***************************************************************************)
(* The OTP e-mail handler of aj-physics-otp-service.                       *)
(*                                                                         *)
(* The repository holds two revisions of the same serverless handler:      *)
(*   revision "A" : src/api/send-otp.js                                    *)
(*   revision "B" : src/unnamed/part_000                                   *)
(* Both are run here on the same request, the same process environment     *)
(* and the same mail service, each as its own invocation h[r].             *)
(*                                                                         *)
(* Strings that the code inspects character by character (to_email, otp)   *)
(* are sequences of one-character strings; strings the code only compares  *)
(* or copies (messages, error codes, type, app_name) are TLA+ strings; a   *)
(* subject is put together from the characters of its parts.               *)
(* The diagnostic "debug"/"error" members of a response body are recorded  *)
(* by key only.                                                            *)
(***************************************************************************)
EXTENDS Integers, Sequences, FiniteSets, TLC

(***************************************************************************)
(* Bounds of the explored inputs.                                          *)
(***************************************************************************)
\* longest run of digits offered as an otp (the code wants exactly 6)
MaxOtpLen == 7
\* longest local part, domain and top-level domain of an offered address
MaxPart == 1

Revs == {"A", "B"}

(***************************************************************************)
(* JavaScript values, as far as the handler looks at them.                 *)
(***************************************************************************)
Undef == [t |-> "undefined", s |-> <<>>, n |-> 0]
Null == [t |-> "null", s |-> <<>>, n |-> 0]
Str(chars) == [t |-> "string", s |-> chars, n |-> 0]
Num(k) == [t |-> "number", s |-> <<>>, n |-> k]
True == [t |-> "boolean", s |-> <<>>, n |-> 1]
\* an array holding the single string chars
Arr1(chars) == [t |-> "array", s |-> chars, n |-> 0]

DigitChar == [d \in 0..9 |->
    CASE d = 0 -> "0" [] d = 1 -> "1" [] d = 2 -> "2" [] d = 3 -> "3"
      [] d = 4 -> "4" [] d = 5 -> "5" [] d = 6 -> "6" [] d = 7 -> "7"
      [] d = 8 -> "8" [] d = 9 -> "9"]

DigitChars == {DigitChar[d] : d \in 0..9}

\* \s of a JavaScript regular expression, over the characters offered
SpaceChars == {" ", "\t", "\n"}

\* !v
Truthy(v) ==
    CASE v.t = "undefined" -> FALSE
      [] v.t = "null" -> FALSE
      [] v.t = "string" -> v.s # <<>>
      [] v.t = "number" -> v.n # 0
      [] v.t = "boolean" -> v.n = 1
      [] OTHER -> TRUE

RECURSIVE ToDecimal(_)
ToDecimal(k) ==
    IF k < 10 THEN <<DigitChar[k]>>
    ELSE ToDecimal(k \div 10) \o <<DigitChar[k % 10]>>

\* String(v), the coercion RegExp.prototype.test applies to its argument
StringOf(v) ==
    CASE v.t = "string" -> v.s
      [] v.t = "number" -> ToDecimal(v.n)
      [] v.t = "array" -> v.s
      [] v.t = "boolean" -> IF v.n = 1 THEN <<"t", "r", "u", "e">>
                            ELSE <<"f", "a", "l", "s", "e">>
      [] v.t = "null" -> <<"n", "u", "l", "l">>
      [] OTHER -> <<"u", "n", "d", "e", "f", "i", "n", "e", "d">>

\* [^\s@]+ matches the whole of chars
NoSpaceAtRun(chars) ==
    /\ Len(chars) >= 1
    /\ \A i \in 1..Len(chars) : chars[i] \notin SpaceChars \cup {"@"}

\* /^[^\s@]+@[^\s@]+\.[^\s@]+$/.test(v)
emailRegexTest(v) ==
    LET str == StringOf(v) IN
    \E i \in 1..Len(str) : \E j \in 1..Len(str) :
        /\ i < j
        /\ str[i] = "@"
        /\ str[j] = "."
        /\ NoSpaceAtRun(SubSeq(str, 1, i - 1))
        /\ NoSpaceAtRun(SubSeq(str, i + 1, j - 1))
        /\ NoSpaceAtRun(SubSeq(str, j + 1, Len(str)))

\* /^\d{6}$/.test(v)
otpRegexTest(v) ==
    LET str == StringOf(v) IN
    /\ Len(str) = 6
    /\ \A i \in 1..6 : str[i] \in DigitChars

(***************************************************************************)
(* The inputs of one invocation.                                           *)
(***************************************************************************)
Rep(c, k) == [i \in 1..k |-> c]

\* "1234567..." cut to k digits
Digits(k) == [i \in 1..k |-> DigitChar[i % 10]]

Address(i, j, k) == Rep("a", i) \o <<"@">> \o Rep("b", j) \o <<".">> \o Rep("c", k)

GoodEmail == Str(Address(1, 1, 1))
GoodOtp == Str(Digits(6))

EmailValues ==
    {Str(Address(i, j, k)) : i \in 0..MaxPart, j \in 0..MaxPart, k \in 0..MaxPart}
      \cup {Undef, Null, Str(<<>>), Str(<<"a", "b", "c">>), Str(<<"a", "@", "b">>),
            Str(<<"a", " ", "@", "b", ".", "c">>), Str(<<"a", "@", "b", "@", "c", ".", "d">>),
            Str(<<"a", "@", "b", ".", "c", ".", "d">>), Str(<<"a", "@", "b", ".", "c", "\n">>),
            Arr1(Address(1, 1, 1)), Num(5)}

OtpValues ==
    {Str(Digits(k)) : k \in 0..MaxOtpLen}
      \cup {Undef, Null, Str(<<"1", "2", "a", "4", "5", "6">>),
            Str(<<"1", "2", " ", "4", "5", "6">>), Str(<<"-", "1", "2", "3", "4", "5">>),
            Str(<<"1", "2", "3", "4", "5", "6", "\n">>),
            Num(0), Num(12345), Num(123456), Arr1(Digits(6)), True}

TypeValues == {"undefined", "password_reset", "signup"}

\* to_email and otp of the offered bodies: every address with a few otps,
\* every otp with a few addresses
FieldPairs ==
    (EmailValues \X {GoodOtp, Undef, Num(12345)})
      \cup ({GoodEmail, Undef} \X OtpValues)
      \cup {<<Str(<<"a", "b", "c">>), Str(Digits(5))>>}

\* req.body: absent, or a parsed JSON object
NoBody ==
    [kind |-> "undefined", to_email |-> Undef, otp |-> Undef, type |-> "undefined",
     app_name |-> "undefined"]

\* app_name, when the body carries one
AppNames == {"Quiz", "Password Reset Hub"}

\* to_email and otp of the bodies offered with an app_name
NamedPairs == {<<GoodEmail, GoodOtp>>, <<Arr1(Address(1, 1, 1)), GoodOtp>>, <<Undef, GoodOtp>>}

Bodies ==
    {NoBody}
      \cup {[kind |-> "object", to_email |-> p[1], otp |-> p[2], type |-> ty,
             app_name |-> "undefined"] : p \in FieldPairs, ty \in TypeValues}
      \cup {[kind |-> "object", to_email |-> p[1], otp |-> p[2], type |-> ty,
             app_name |-> a] : p \in NamedPairs, ty \in TypeValues, a \in AppNames}

Methods == {"POST", "OPTIONS", "GET"}

\* process.env.GMAIL_USER and process.env.GMAIL_PASS: unset, empty or set
EnvValues == {"undefined", "", "set"}

Environment(user, pass) == [GMAIL_USER |-> user, GMAIL_PASS |-> pass]

Environments ==
    {Environment("set", "set"), Environment("undefined", "set"),
     Environment("set", "undefined"), Environment("set", ""),
     Environment("undefined", "undefined")}

\* the bodies offered with a method whose branch never reads the body
PreflightBodies ==
    {b \in Bodies : /\ b.type = "undefined"
                    /\ b.to_email \in {Undef, GoodEmail}
                    /\ b.otp \in {Undef, GoodOtp, Num(12345)}}

Requests ==
    [method : {"POST"}, body : Bodies]
      \cup [method : Methods \ {"POST"}, body : PreflightBodies]

\* errors as the handler looks at them: constructor, .code, and whether
\* .message includes 'Invalid login'
Err(name, code, login) == [name |-> name, code |-> code, invalidLogin |-> login]
NoErr == Err("none", "", FALSE)
TypeErr == Err("TypeError", "", FALSE)

TransportErrors ==
    {Err("Error", "EAUTH", TRUE), Err("Error", "ECONNECTION", FALSE),
     Err("Error", "EMESSAGE", FALSE), Err("Error", "ETIMEDOUT", FALSE)}

MessageIds == {"abc123", "<m2@mail>"}

\* what a collaborator call settles with
Resolved(id) == [ok |-> TRUE, err |-> NoErr, messageId |-> id]
Rejected(e) == [ok |-> FALSE, err |-> e, messageId |-> ""]

VerifyOutcomes == {Resolved("")} \cup {Rejected(e) : e \in TransportErrors}

SendOutcomes ==
    {Resolved(id) : id \in MessageIds}
      \cup {Rejected(e) : e \in TransportErrors \cup {Err("Error", "", TRUE)}}

Now == "2025-01-01T00:00:00.000Z"

(***************************************************************************)
(* State.                                                                  *)
(***************************************************************************)
VARIABLES
    req,    \* the request: method and body
    env,    \* process.env: GMAIL_USER, GMAIL_PASS
    smtp,   \* how the mail service answers verify() and sendMail() for this request
    h       \* h[r]: the invocation of revision r

vars == <<req, env, smtp, h>>

NoFields == [to_email |-> Undef, otp |-> Undef, type |-> "undefined", app_name |-> "undefined"]
NoMail == [to |-> Undef, subject |-> <<>>]

\* an invocation before its first statement
Fresh ==
    [pc |-> "start", bodyRead |-> FALSE, fields |-> NoFields, transporter |-> FALSE,
     calls |-> <<>>, error |-> NoErr, mail |-> NoMail, responses |-> <<>>,
     escaped |-> FALSE]

Init ==
    /\ req \in Requests
    /\ env \in Environments
    /\ smtp \in [verify : VerifyOutcomes, send : SendOutcomes]
    /\ h = [r \in Revs |-> Fresh]

(***************************************************************************)
(* Responses: res.status(status).json(body).  keys are the members the     *)
(* serialised body carries.                                                *)
(***************************************************************************)
Json(status, keys, success, message, timestamp, messageId) ==
    [status |-> status, keys |-> keys, success |-> success, message |-> message,
     timestamp |-> timestamp, messageId |-> messageId]

\* return res.status(..).json(..): the response is sent and the handler ends
Respond(hr, response) ==
    [hr EXCEPT !.responses = Append(@, response), !.pc = "done"]

\* InTry with the try block opening after the body is destructured
InTryAfterExtract(pc) ==
    pc \in {"validate", "configure", "verify", "awaitVerify", "compose", "send",
            "awaitSend"}

\* the statements inside try { ... } catch (error) of the handler
InTry(pc) ==
    pc \in {"extract", "validate", "configure", "verify", "awaitVerify",
            "compose", "send", "awaitSend"}

\* an exception thrown at hr.pc: caught by the handler's catch block, or
\* leaving the handler
Throw(hr, e) ==
    IF InTry(hr.pc) THEN [hr EXCEPT !.pc = "catch", !.error = e]
    ELSE [hr EXCEPT !.pc = "done", !.error = e, !.escaped = TRUE]

(***************************************************************************)
(* The handler, statement block by statement block.  Step(r) is one block  *)
(* of the invocation of revision r.                                        *)
(***************************************************************************)

\* the "debug" member, which only revision A attaches
Debug(r) == IF r = "A" THEN {"debug"} ELSE {}

\* MethodGate without the POST-only check
MethodGateNoReject(r, hr) ==
    IF req.method = "OPTIONS"
    THEN Respond(hr, Json(200, {"message"}, FALSE, "CORS preflight successful", "", ""))
    ELSE [hr EXCEPT !.pc = "extract"]

\* req.method === 'OPTIONS', then req.method !== 'POST'
MethodGate(r, hr) ==
    IF req.method = "OPTIONS"
    THEN Respond(hr, Json(200, {"message"}, FALSE, "CORS preflight successful", "", ""))
    ELSE IF req.method # "POST"
    THEN Respond(hr, Json(405, {"success", "message"} \cup Debug(r), FALSE,
                          "Method not allowed. Use POST.", "", ""))
    ELSE [hr EXCEPT !.pc = "extract"]

Receive(r) ==
    /\ h[r].pc = "start"
    /\ h' = [h EXCEPT ![r] = MethodGate(r, h[r])]
    /\ UNCHANGED <<req, env, smtp>>

\* const { to_email, otp, type = 'verification', app_name = 'AJ Physics Chat' } = req.body
Destructure(body) ==
    [to_email |-> body.to_email, otp |-> body.otp,
     type |-> IF body.type = "undefined" THEN "verification" ELSE body.type,
     app_name |-> IF body.app_name = "undefined" THEN "AJ Physics Chat" ELSE body.app_name]

\* revision A logs otp.substring(0, 3) of a truthy otp before it validates
LogThrows(r, otp) == r = "A" /\ Truthy(otp) /\ otp.t # "string"

ExtractBody(r, hr) ==
    IF req.body.kind = "undefined" THEN Throw([hr EXCEPT !.bodyRead = TRUE], TypeErr)
    ELSE IF LogThrows(r, req.body.otp)
    THEN Throw([hr EXCEPT !.bodyRead = TRUE], TypeErr)
    ELSE [hr EXCEPT !.bodyRead = TRUE, !.fields = Destructure(req.body),
                    !.pc = "validate"]

Extract(r) ==
    /\ h[r].pc = "extract"
    /\ h' = [h EXCEPT ![r] = ExtractBody(r, h[r])]
    /\ UNCHANGED <<req, env, smtp>>

\* ValidationError without the otp format check
ValidationErrorNoOtpFormat(f) ==
    IF ~Truthy(f.to_email) \/ ~Truthy(f.otp) THEN "Email and OTP are required fields"
    ELSE IF ~emailRegexTest(f.to_email) THEN "Invalid email format"
    ELSE ""

\* the three validation steps; "" when the request passes them
ValidationError(f) ==
    IF ~Truthy(f.to_email) \/ ~Truthy(f.otp) THEN "Email and OTP are required fields"
    ELSE IF ~emailRegexTest(f.to_email) THEN "Invalid email format"
    ELSE IF ~otpRegexTest(f.otp) THEN "OTP must be exactly 6 digits"
    ELSE ""

ValidateFields(r, hr) ==
    LET msg == ValidationError(hr.fields) IN
    IF msg # ""
    THEN Respond(hr, Json(400,
            {"success", "message"} \cup
                (IF msg = "Email and OTP are required fields" THEN Debug(r) ELSE {}),
            FALSE, msg, "", ""))
    ELSE [hr EXCEPT !.pc = "configure"]

Validate(r) ==
    /\ h[r].pc = "validate"
    /\ h' = [h EXCEPT ![r] = ValidateFields(r, h[r])]
    /\ UNCHANGED <<req, env, smtp>>

\* !process.env.X
EnvMissing(x) == x \in {"undefined", ""}

\* CredentialsMissing looking at GMAIL_USER alone
CredentialsMissingUserOnly == EnvMissing(env.GMAIL_USER)

\* !process.env.GMAIL_USER || !process.env.GMAIL_PASS
CredentialsMissing == EnvMissing(env.GMAIL_USER) \/ EnvMissing(env.GMAIL_PASS)

\* nodemailer exports createTransport; revision B calls
\* nodemailer.createTransporter, which is undefined: calling it throws
CreateTransport(r, hr) ==
    IF r = "A" THEN [hr EXCEPT !.transporter = TRUE, !.pc = "verify"]
    ELSE Throw(hr, TypeErr)

ConfigureTransport(r, hr) ==
    IF CredentialsMissing
    THEN Respond(hr, Json(500, {"success", "message"} \cup Debug(r), FALSE,
            IF r = "A" THEN "Server configuration error - missing credentials"
            ELSE "Server configuration error", "", ""))
    ELSE CreateTransport(r, hr)

Configure(r) ==
    /\ h[r].pc = "configure"
    /\ h' = [h EXCEPT ![r] = ConfigureTransport(r, h[r])]
    /\ UNCHANGED <<req, env, smtp>>

\* await transporter.verify(): the call is made
CallVerify(r) ==
    /\ h[r].pc = "verify"
    /\ h[r].transporter
    /\ h' = [h EXCEPT ![r].calls = Append(@, "verify"), ![r].pc = "awaitVerify"]
    /\ UNCHANGED <<req, env, smtp>>

\* the message of the catch (verifyError) block
VerifyErrorMessage(r, e) ==
    IF r = "A" /\ e.code = "EAUTH"
    THEN "Gmail authentication failed. Please check your app password."
    ELSE IF r = "A" /\ e.code = "ECONNECTION"
    THEN "Failed to connect to Gmail servers."
    ELSE "Email service configuration error"

\* VerifySettled whose catch block sends its response and does not return
VerifySettledNoReturn(r, hr) ==
    IF smtp.verify.ok THEN [hr EXCEPT !.pc = "compose"]
    ELSE [hr EXCEPT !.responses = Append(@, Json(500, {"success", "message"}, FALSE,
                        "Email service configuration error", "", "")),
                    !.pc = "compose"]

VerifySettled(r, hr) ==
    IF smtp.verify.ok THEN [hr EXCEPT !.pc = "compose"]
    ELSE Respond(hr, Json(500, {"success", "message"} \cup Debug(r), FALSE,
                          VerifyErrorMessage(r, smtp.verify.err), "", ""))

\* verify() settles
VerifyReturn(r) ==
    /\ h[r].pc = "awaitVerify"
    /\ h' = [h EXCEPT ![r] = VerifySettled(r, h[r])]
    /\ UNCHANGED <<req, env, smtp>>

\* the characters of the strings a subject is put together from
Chars(str) ==
    CASE str = "AJ Physics Chat" ->
          <<"A", "J", " ", "P", "h", "y", "s", "i", "c", "s", " ", "C", "h",
            "a", "t">>
      [] str = "Quiz" ->
          <<"Q", "u", "i", "z">>
      [] str = "Password Reset Hub" ->
          <<"P", "a", "s", "s", "w", "o", "r", "d", " ", "R", "e", "s", "e",
            "t", " ", "H", "u", "b">>
      [] str = " - " ->
          <<" ", "-", " ">>
      [] str = "Password Reset" ->
          <<"P", "a", "s", "s", "w", "o", "r", "d", " ", "R", "e", "s", "e",
            "t">>
      [] str = "Email Verification" ->
          <<"E", "m", "a", "i", "l", " ", "V", "e", "r", "i", "f", "i", "c",
            "a", "t", "i", "o", "n">>
      [] str = " Code" ->
          <<" ", "C", "o", "d", "e">>

\* Subject with the two wordings exchanged
SubjectSwapped(f) ==
    Chars(f.app_name) \o Chars(" - ")
      \o Chars(IF f.type = "password_reset" THEN "Email Verification"
               ELSE "Password Reset")
      \o Chars(" Code")

\* `${app_name} - ${isPasswordReset ? 'Password Reset' : 'Email Verification'} Code`
Subject(f) ==
    Chars(f.app_name) \o Chars(" - ")
      \o Chars(IF f.type = "password_reset" THEN "Password Reset"
               ELSE "Email Verification")
      \o Chars(" Code")

\* mailOptions
ComposeMail(hr) ==
    [hr EXCEPT !.mail = [to |-> hr.fields.to_email, subject |-> Subject(hr.fields)],
               !.pc = "send"]

Compose(r) ==
    /\ h[r].pc = "compose"
    /\ h' = [h EXCEPT ![r] = ComposeMail(h[r])]
    /\ UNCHANGED <<req, env, smtp>>

\* await transporter.sendMail(mailOptions): the call is made
CallSendMail(r) ==
    /\ h[r].pc = "send"
    /\ h' = [h EXCEPT ![r].calls = Append(@, "sendMail"), ![r].pc = "awaitSend"]
    /\ UNCHANGED <<req, env, smtp>>

SendSettled(r, hr) ==
    IF smtp.send.ok
    THEN Respond(hr, Json(200,
            {"success", "message", "timestamp", "messageId"} \cup Debug(r),
            TRUE, "OTP sent successfully", Now, smtp.send.messageId))
    ELSE Throw(hr, smtp.send.err)

\* sendMail() settles
SendReturn(r) ==
    /\ h[r].pc = "awaitSend"
    /\ h' = [h EXCEPT ![r] = SendSettled(r, h[r])]
    /\ UNCHANGED <<req, env, smtp>>

\* the status of the handler's catch (error) block
CatchStatus(r, e) ==
    IF r = "B" /\ e.code = "EMESSAGE" THEN 400 ELSE 500

\* the message of the handler's catch (error) block
CatchMessage(r, e) ==
    IF e.code = "EAUTH"
    THEN (IF r = "A" THEN "Gmail authentication failed. Please check your app password."
          ELSE "Email authentication failed. Please check credentials.")
    ELSE IF e.code = "ECONNECTION"
    THEN (IF r = "A" THEN "Failed to connect to Gmail servers."
          ELSE "Failed to connect to email service. Please try again.")
    ELSE IF e.code = "EMESSAGE" THEN "Invalid email message format."
    ELSE IF r = "A" /\ e.invalidLogin THEN "Gmail credentials are invalid."
    ELSE "Failed to send verification code"

CatchBlock(r, hr) ==
    Respond(hr, Json(CatchStatus(r, hr.error),
        {"success", "message"} \cup (IF r = "A" THEN {"debug"} ELSE {"timestamp"}),
        FALSE, CatchMessage(r, hr.error), IF r = "A" THEN "" ELSE Now, ""))

Catch(r) ==
    /\ h[r].pc = "catch"
    /\ h' = [h EXCEPT ![r] = CatchBlock(r, h[r])]
    /\ UNCHANGED <<req, env, smtp>>

Step(r) ==
    \/ Receive(r)
    \/ Extract(r)
    \/ Validate(r)
    \/ Configure(r)
    \/ CallVerify(r)
    \/ VerifyReturn(r)
    \/ Compose(r)
    \/ CallSendMail(r)
    \/ SendReturn(r)
    \/ Catch(r)

Next == \E r \in Revs : Step(r)

Spec == Init /\ [][Next]_vars

\* every invocation that can take a step eventually takes it: the runtime
\* runs the handler's synchronous blocks, and the mail service settles each
\* call it was given
FairSpec == Spec /\ \A r \in Revs : WF_vars(Step(r))

TypeOK ==
    /\ req \in Requests
    /\ env \in [GMAIL_USER : EnvValues, GMAIL_PASS : EnvValues]
    /\ \A r \in Revs :
        /\ h[r].pc \in {"start", "extract", "validate", "configure", "verify",
                        "awaitVerify", "compose", "send", "awaitSend", "catch", "done"}
        /\ h[r].bodyRead \in BOOLEAN
        /\ h[r].transporter \in BOOLEAN
        /\ h[r].escaped \in BOOLEAN

(***************************************************************************)
(* Vocabulary of the properties.                                           *)
(***************************************************************************)
Done(r) == h[r].pc = "done"
Answered(r) == Len(h[r].responses) >= 1
Answer(r) == h[r].responses[1]

\* the response resp is a failure with the given status
Failure(resp, status) ==
    /\ resp.status = status
    /\ "success" \in resp.keys
    /\ resp.success = FALSE

PostObject == req.method = "POST" /\ req.body.kind = "object"

\* to_email and otp present and of the required shape, as the regular
\* expressions see them
ValidFields ==
    /\ PostObject
    /\ Truthy(req.body.to_email) /\ Truthy(req.body.otp)
    /\ emailRegexTest(req.body.to_email)
    /\ otpRegexTest(req.body.otp)

\* a well-formed request as the spec's data model has it: both fields strings
WellFormed ==
    /\ ValidFields
    /\ req.body.to_email.t = "string"
    /\ req.body.otp.t = "string"

AuthMessages ==
    {"Gmail authentication failed. Please check your app password.",
     "Email authentication failed. Please check credentials."}
ConnectionMessages ==
    {"Failed to connect to Gmail servers.",
     "Failed to connect to email service. Please try again."}
GenericMessages ==
    {"Email service configuration error", "Failed to send verification code"}

(***************************************************************************)
(* C1. Neither verify() nor sendMail() is invoked unless to_email and otp  *)
(* are both present, to_email matches local@domain.tld and otp is exactly  *)
(* six decimal digits: no request failing a validation step reaches the    *)
(* mail collaborator.                                                      *)
(***************************************************************************)
C1_ValidatedBeforeMail ==
    \A r \in Revs : h[r].calls # <<>> => ValidFields

C1_Witness ==
    \E r \in Revs : h[r].calls = <<"verify", "sendMail">> /\ ValidFields

(***************************************************************************)
(* C2. Every POST request in which to_email or otp is missing or empty     *)
(* (a body with neither field, or no body at all, included) is answered    *)
(* with status 400 and success=false.                                      *)
(***************************************************************************)
C2_MissingFieldIs400 ==
    \A r \in Revs :
        (/\ Done(r)
         /\ req.method = "POST"
         /\ ~Truthy(req.body.to_email) \/ ~Truthy(req.body.otp))
            => Answered(r) /\ Failure(Answer(r), 400)

(***************************************************************************)
(* C3. Every POST request whose to_email and otp are both present but      *)
(* whose to_email does not match the address shape, or whose otp is        *)
(* anything other than exactly six ASCII digits, is answered with status   *)
(* 400 and success=false, for every otp value and not only for strings.    *)
(***************************************************************************)
C3_MalformedFieldIs400 ==
    \A r \in Revs :
        (/\ Done(r)
         /\ PostObject
         /\ Truthy(req.body.to_email) /\ Truthy(req.body.otp)
         /\ ~emailRegexTest(req.body.to_email) \/ ~otpRegexTest(req.body.otp))
            => Answered(r) /\ Failure(Answer(r), 400)

(***************************************************************************)
(* C4. When GMAIL_USER or GMAIL_PASS is absent, a well-formed POST request *)
(* is answered with status 500 and success=false, no transporter is        *)
(* constructed and neither verify() nor sendMail() is invoked.             *)
(***************************************************************************)
C4_NoCredentialsIs500 ==
    \A r \in Revs :
        (ValidFields /\ (EnvMissing(env.GMAIL_USER) \/ EnvMissing(env.GMAIL_PASS)))
            => /\ ~h[r].transporter
               /\ h[r].calls = <<>>
               /\ Done(r) => Answered(r) /\ Failure(Answer(r), 500)

C4_Witness ==
    \E r \in Revs :
        /\ WellFormed
        /\ ~EnvMissing(env.GMAIL_USER) /\ EnvMissing(env.GMAIL_PASS)
        /\ Done(r)
        /\ Answer(r).message \in {"Server configuration error",
                                  "Server configuration error - missing credentials"}

(***************************************************************************)
(* C5. When sendMail() rejects the composed message with code EMESSAGE the *)
(* response has status 400 and success=false; every other delivery error   *)
(* yields status 500.                                                      *)
(***************************************************************************)
C5_MalformedMessageIs400 ==
    \A r \in Revs :
        (Done(r) /\ h[r].calls = <<"verify", "sendMail">> /\ ~smtp.send.ok)
            => /\ Answered(r)
               /\ Failure(Answer(r),
                          IF smtp.send.err.code = "EMESSAGE" THEN 400 ELSE 500)

(***************************************************************************)
(* C6. For a well-formed POST request with credentials configured, when    *)
(* the mail service accepts verification and its send returns a receipt    *)
(* with message id m, the response has status 200, success=true, message   *)
(* 'OTP sent successfully', a timestamp and message id m.                  *)
(***************************************************************************)
C6_ReceiptIs200 ==
    \A r \in Revs :
        (/\ Done(r)
         /\ WellFormed
         /\ ~EnvMissing(env.GMAIL_USER) /\ ~EnvMissing(env.GMAIL_PASS)
         /\ smtp.verify.ok /\ smtp.send.ok)
            => /\ Answered(r)
               /\ Answer(r).status = 200
               /\ {"success", "message", "timestamp", "messageId"} \subseteq Answer(r).keys
               /\ Answer(r).success = TRUE
               /\ Answer(r).message = "OTP sent successfully"
               /\ Answer(r).messageId = smtp.send.messageId

(***************************************************************************)
(* C7. A transport error classified EAUTH or ECONNECTION, raised by the    *)
(* mail service during verification or during send, is answered with       *)
(* status 500, success=false and a message specific to the classification: *)
(* one for authentication, another for connection, neither the generic     *)
(* failure message.                                                        *)
(***************************************************************************)
\* the error the mail service raises for this request: at verification, or
\* else at send
TransportFailure ==
    IF ~smtp.verify.ok THEN smtp.verify.err
    ELSE IF ~smtp.send.ok THEN smtp.send.err
    ELSE NoErr

C7_ClassifiedTransportError ==
    \A r \in Revs :
        (/\ Done(r)
         /\ WellFormed
         /\ ~EnvMissing(env.GMAIL_USER) /\ ~EnvMissing(env.GMAIL_PASS)
         /\ TransportFailure.code \in {"EAUTH", "ECONNECTION"})
            => /\ Answered(r)
               /\ Failure(Answer(r), 500)
               /\ TransportFailure.code = "EAUTH" => Answer(r).message \in AuthMessages
               /\ TransportFailure.code = "ECONNECTION"
                      => Answer(r).message \in ConnectionMessages

(***************************************************************************)
(* C8. For every request and every outcome of the collaborator calls the   *)
(* handler terminates having sent exactly one response, with status in     *)
(* {200, 400, 405, 500} and a JSON body, and no exception escapes it; a    *)
(* collaborator error of unknown classification yields the generic 500     *)
(* failure.                                                                *)
(***************************************************************************)
\* the error a collaborator call of invocation r was rejected with
RaisedError(r) ==
    IF h[r].calls = <<"verify">> /\ ~smtp.verify.ok THEN smtp.verify.err
    ELSE IF h[r].calls = <<"verify", "sendMail">> /\ ~smtp.send.ok THEN smtp.send.err
    ELSE NoErr

\* an error neither revision classifies: by code, or by 'Invalid login'
Unclassified(e) ==
    /\ e # NoErr
    /\ e.code \notin {"EAUTH", "ECONNECTION", "EMESSAGE"}
    /\ ~e.invalidLogin

C8_OneResponse ==
    \A r \in Revs :
        /\ ~h[r].escaped
        /\ Len(h[r].responses) <= 1
        /\ ~Done(r) => ~Answered(r) /\ ENABLED Step(r)
        /\ Done(r) =>
            /\ Len(h[r].responses) = 1
            /\ Answer(r).status \in {200, 400, 405, 500}
            /\ "message" \in Answer(r).keys
            /\ Unclassified(RaisedError(r)) =>
                /\ Failure(Answer(r), 500)
                /\ Answer(r).message \in GenericMessages

C8_Terminates == []C8_OneResponse /\ <>[](\A r \in Revs : Done(r))

C8_Witness ==
    \E r \in Revs :
        /\ Done(r)
        /\ h[r].calls = <<"verify", "sendMail">>
        /\ Unclassified(RaisedError(r))
        /\ Answer(r).message = "Failed to send verification code"

(***************************************************************************)
(* C9. For each request the collaborator calls are a prefix of             *)
(* <verify, sendMail>: verify at most once, sendMail at most once and only *)
(* after verify has succeeded, no call repeated after a failure, and no    *)
(* call after the response has been sent.                                  *)
(***************************************************************************)
CallsInOrder ==
    \A r \in Revs :
        /\ h[r].calls \in {<<>>, <<"verify">>, <<"verify", "sendMail">>}
        /\ Len(h[r].calls) = 2 => smtp.verify.ok
        /\ Answered(r) /\ ~smtp.verify.ok => Len(h[r].calls) <= 1

NoCallAfterResponse ==
    \A r \in Revs : Answered(r) => h'[r].calls = h[r].calls

C9_LinearPass == []CallsInOrder /\ [][NoCallAfterResponse]_vars

C9_Witness ==
    \E r \in Revs : Done(r) /\ h[r].calls = <<"verify">> /\ ~smtp.verify.ok

(***************************************************************************)
(* C10. A request whose method is neither POST nor OPTIONS is answered     *)
(* with status 405 and success=false, an OPTIONS request with status 200;  *)
(* in both cases the body is not validated and no collaborator call is     *)
(* made.                                                                   *)
(***************************************************************************)
C10_MethodGate ==
    \A r \in Revs :
        req.method # "POST" =>
            /\ ~h[r].bodyRead
            /\ h[r].calls = <<>>
            /\ h[r].pc \in {"start", "done"}
            /\ Done(r) =>
                /\ Len(h[r].responses) = 1
                /\ IF req.method = "OPTIONS" THEN Answer(r).status = 200
                   ELSE Failure(Answer(r), 405)

C10_Witness ==
    \E r \in Revs :
        /\ req.method = "GET"
        /\ req.body.kind = "object"
        /\ Done(r)
        /\ Answer(r).status = 405

(***************************************************************************)
(* C11. For every well-formed request that reaches message composition,    *)
(* the subject of the message handed to sendMail() contains 'Password      *)
(* Reset' if and only if type equals 'password_reset', and otherwise       *)
(* contains 'Email Verification'; a request with no type field is treated  *)
(* as type 'verification', and the recipient equals the request's          *)
(* to_email.                                                               *)
(***************************************************************************)
\* String.prototype.includes
Contains(hay, needle) ==
    \E k \in 0..(Len(hay) - Len(needle)) :
        SubSeq(hay, k + 1, k + Len(needle)) = needle

\* invocation r has handed its message to sendMail()
HandedToSendMail(r) == Len(h[r].calls) = 2 /\ h[r].calls[2] = "sendMail"

\* the recipient is to_email, and a missing type counts as 'verification'
RecipientAndDefault(r) ==
    /\ h[r].mail.to = req.body.to_email
    /\ req.body.type = "undefined" => h[r].fields.type = "verification"
    /\ req.body.type # "undefined" => h[r].fields.type = req.body.type

\* the claim as stated: 'Password Reset' in the subject exactly when type
\* is 'password_reset'
C11_SubjectIffType ==
    \A r \in Revs :
        HandedToSendMail(r) =>
            /\ RecipientAndDefault(r)
            /\ Contains(h[r].mail.subject, Chars("Password Reset"))
                   <=> req.body.type = "password_reset"
            /\ req.body.type # "password_reset"
                   => Contains(h[r].mail.subject, Chars("Email Verification"))

\* the claim as amended: with another type, 'Password Reset' is in the
\* subject only when app_name brings it
C11_SubjectByType ==
    \A r \in Revs :
        HandedToSendMail(r) =>
            /\ RecipientAndDefault(r)
            /\ req.body.type = "password_reset"
                   => Contains(h[r].mail.subject, Chars("Password Reset"))
            /\ req.body.type # "password_reset"
                   => /\ Contains(h[r].mail.subject, Chars("Email Verification"))
                      /\ Contains(h[r].mail.subject, Chars("Password Reset"))
                             <=> Contains(Chars(h[r].fields.app_name),
                                          Chars("Password Reset"))

C11_Witness ==
    \E r \in Revs :
        /\ HandedToSendMail(r)
        /\ WellFormed
        /\ req.body.type = "signup"
        /\ req.body.app_name = "Quiz"
        /\ Contains(h[r].mail.subject, Chars("Email Verification"))
        /\ ~Contains(h[r].mail.subject, Chars("Password Reset"))

(***************************************************************************)
(* C12. The two revisions are observably equivalent up to wording: for     *)
(* every request, every credential configuration and every sequence of     *)
(* collaborator outcomes, both make the same sequence of collaborator      *)
(* calls and return the same status code and the same success flag.        *)
(***************************************************************************)
\* the success member of a response body, "absent" when it has none
SuccessFlag(resp) ==
    IF "success" \notin resp.keys THEN "absent"
    ELSE IF resp.success THEN "true" ELSE "false"

C12_RevisionsAgree ==
    (Done("A") /\ Done("B")) =>
        /\ h["A"].calls = h["B"].calls
        /\ Len(h["A"].responses) = Len(h["B"].responses)
        /\ Answered("A") /\ Answered("B") =>
            /\ Answer("A").status = Answer("B").status
            /\ SuccessFlag(Answer("A")) = SuccessFlag(Answer("B"))

=============================================================================
